---- MODULE Spec2Model ----
(***************************************************************************)
(* Model of photomosaics/process_source.py: the default output path        *)
(* derivation (_build_default_output_path) and the batch thumbnailer       *)
(* (process_source_images, driven by the __main__ block).                  *)
(*                                                                         *)
(* Path strings are sequences of tokens: the separator "/" and indivisible *)
(* name tokens ("a", "source_images", "..", "_processed", ...).            *)
(* File names are sequences of dot-separated components:                   *)
(* <<"a","png">> is "a.png", <<"","png">> is ".png".                       *)
(***************************************************************************)
EXTENDS Integers, Sequences, FiniteSets, TLC

VARIABLES
    \* ---- _build_default_output_path ----
    cwd,                 \* the process working directory os.path.abspath reads
    source_path,         \* the argument of _build_default_output_path
    result,              \* its return value (<<>> until it returned)
    ppc,                 \* "idle" | "call" | "returned"
    \* ---- process_source_images / __main__ ----
    fs,                  \* the file system: path -> node
    source_folder_path,  \* argument
    output_folder_path,  \* argument
    square_size,         \* argument
    pc,                  \* position of the command-line run
    listing,             \* order in which the source directory lists its names
    todo,                \* names the for loop has still to visit
    stdout,              \* lines printed by the current run
    written,             \* history: files written by the current run
    run,                 \* number of the current run
    fs0                  \* history: the file system when the current run began

pathVars == <<cwd, source_path, result, ppc>>
batchVars == <<fs, source_folder_path, output_folder_path, square_size, pc,
               listing, todo, stdout, written, run, fs0>>
vars == <<cwd, source_path, result, ppc, fs, source_folder_path,
          output_folder_path, square_size, pc, listing, todo, stdout,
          written, run, fs0>>

(***************************************************************************)
(* Bounds                                                                  *)
(***************************************************************************)
MaxSegs == 4
MaxFiles == 2
MaxRuns == 2

(***************************************************************************)
(* Path strings                                                            *)
(***************************************************************************)
Sep == "/"

Sentinel == <<"source_images">>

HasSep(s) == \E i \in 1..Len(s) : s[i] = Sep

FirstSep(s) == CHOOSE i \in 1..Len(s) : s[i] = Sep /\ \A j \in 1..(i - 1) : s[j] # Sep

LastSep(s) == IF HasSep(s)
              THEN CHOOSE i \in 1..Len(s) : s[i] = Sep /\ \A j \in (i + 1)..Len(s) : s[j] # Sep
              ELSE 0

\* str.split(os.sep)
RECURSIVE Split(_)
Split(s) == IF HasSep(s)
            THEN <<SubSeq(s, 1, FirstSep(s) - 1)>> \o Split(SubSeq(s, FirstSep(s) + 1, Len(s)))
            ELSE <<s>>

\* os.sep.join(parts)
RECURSIVE SepJoin(_)
SepJoin(parts) == IF parts = <<>> THEN <<>>
                  ELSE IF Len(parts) = 1 THEN parts[1]
                  ELSE parts[1] \o <<Sep>> \o SepJoin(Tail(parts))

\* list.index(x): position of the first occurrence
Index(parts, x) == CHOOSE i \in 1..Len(parts) : parts[i] = x /\ \A j \in 1..(i - 1) : parts[j] # x

Contains(parts, x) == \E i \in 1..Len(parts) : parts[i] = x

\* a naive join that always inserts the separator
PathJoinAlwaysSep(a, b) == a \o <<Sep>> \o b

\* posixpath.join(a, b)
PathJoin(a, b) == IF b # <<>> /\ b[1] = Sep THEN b
                  ELSE IF a = <<>> \/ a[Len(a)] = Sep THEN a \o b
                  ELSE a \o <<Sep>> \o b

IsAbs(p) == p # <<>> /\ p[1] = Sep

\* posixpath.normpath: the number of leading slashes it keeps
InitialSlashes(p) == IF ~IsAbs(p) THEN 0
                     ELSE IF Len(p) >= 2 /\ p[2] = Sep /\ ~(Len(p) >= 3 /\ p[3] = Sep) THEN 2
                     ELSE 1

\* posixpath.normpath: the loop over the components
RECURSIVE NormComps(_, _, _)
NormComps(comps, acc, slashes) ==
    IF comps = <<>> THEN acc
    ELSE LET comp == Head(comps) IN
         IF comp = <<>> \/ comp = <<".">> THEN NormComps(Tail(comps), acc, slashes)
         ELSE IF comp # <<"..">> \/ (slashes = 0 /\ acc = <<>>)
                 \/ (acc # <<>> /\ acc[Len(acc)] = <<"..">>)
              THEN NormComps(Tail(comps), Append(acc, comp), slashes)
         ELSE IF acc # <<>> THEN NormComps(Tail(comps), SubSeq(acc, 1, Len(acc) - 1), slashes)
         ELSE NormComps(Tail(comps), acc, slashes)

NormPath(p) == LET slashes == InitialSlashes(p)
                   body == SepJoin(NormComps(Split(p), <<>>, slashes))
                   path == [i \in 1..slashes |-> Sep] \o body
               IN IF path = <<>> THEN <<".">> ELSE path

\* os.path.abspath(path)
Abspath(path) == IF IsAbs(path) THEN NormPath(path) ELSE NormPath(PathJoin(cwd, path))

\* posixpath.dirname
Dirname(p) == LET head == SubSeq(p, 1, LastSep(p))
                  allSeps == \A i \in 1..Len(head) : head[i] = Sep
                  RECURSIVE RStrip(_)
                  RStrip(h) == IF h # <<>> /\ h[Len(h)] = Sep
                               THEN RStrip(SubSeq(h, 1, Len(h) - 1)) ELSE h
              IN IF head # <<>> /\ ~allSeps THEN RStrip(head) ELSE head

\* posixpath.basename
Basename(p) == SubSeq(p, LastSep(p) + 1, Len(p))

\* _build_default_output_path(source_path)
BuildDefaultOutputPath(sp) ==
    LET abs_path == Abspath(sp)
        parts == Split(abs_path)
    IN IF Contains(parts, Sentinel)
       THEN LET idx == Index(parts, Sentinel)
                project_root == SepJoin(SubSeq(parts, 1, idx - 1))
                remainder == SepJoin(SubSeq(parts, idx + 1, Len(parts)))
            IN PathJoin(PathJoin(project_root, <<"processed_source_images">>),
                        remainder \o <<"_processed">>)
       ELSE LET parent == Dirname(abs_path)
                base_name == Basename(abs_path)
            IN PathJoin(parent, base_name \o <<"_processed">>)

(***************************************************************************)
(* Files, images and the file system                                       *)
(***************************************************************************)
DefaultSquareSize == 35

Quality == 75

\* the two directories of a run: "S" is the source folder, "O" another one
Paths == {"S", "O"}

Absent == [type |-> "absent", entries |-> <<>>]

RegularFile == [type |-> "file", entries |-> <<>>]

Directory(entries) == [type |-> "dir", entries |-> entries]

\* a directory entry: a subdirectory, or a file whose bytes are an image
\* (fault "none") or make one stage of the pipeline raise
File(fault, w, h, data) == [kind |-> "file", fault |-> fault, w |-> w, h |-> h, data |-> data]

SubDirectory == [kind |-> "dir", fault |-> "open", w |-> 0, h |-> 0, data |-> <<"dir">>]

\* os.path.isfile(os.path.join(folder, filename)), everything else passes
IsFileAnything(entries, filename) == filename \in DOMAIN entries

\* os.path.isfile(os.path.join(folder, filename))
IsFile(entries, filename) == filename \in DOMAIN entries /\ entries[filename].kind = "file"

\* a resize that keeps the aspect ratio (Image.thumbnail) instead of cropping
FitKeepAspect(img, size) ==
    [w |-> IF img.w >= img.h THEN size[1] ELSE (size[1] * img.w) \div img.h,
     h |-> IF img.h >= img.w THEN size[2] ELSE (size[2] * img.h) \div img.w,
     data |-> <<"fit", size, <<0, 0, img.w, img.h>>, img.data>>]

\* ImageOps.fit(img, size): centre crop to the output ratio, then resize
Fit(img, size) ==
    LET crop_width == IF img.w * size[2] = img.h * size[1] THEN img.w
                      ELSE IF img.w * size[2] >= img.h * size[1]
                           THEN (size[1] * img.h) \div size[2]
                           ELSE img.w
        crop_height == IF img.w * size[2] = img.h * size[1] THEN img.h
                       ELSE IF img.w * size[2] >= img.h * size[1]
                            THEN img.h
                            ELSE (img.w * size[2]) \div size[1]
        crop_left == (img.w - crop_width) \div 2
        crop_top == (img.h - crop_height) \div 2
        crop == <<crop_left, crop_top, crop_left + crop_width, crop_top + crop_height>>
    IN [w |-> size[1], h |-> size[2], data |-> <<"fit", size, crop, img.data>>]

\* the bytes processed_img.save(out_path, format="WEBP", quality=75) writes
Encode(img) == File("none", img.w, img.h, <<"WEBP", Quality, img.data>>)

\* os.path.splitext(filename)[0]: the last extension is dropped unless only
\* dots precede it
SplitExtRoot(filename) ==
    IF Len(filename) >= 2 /\ \E i \in 1..(Len(filename) - 1) : filename[i] # ""
    THEN SubSeq(filename, 1, Len(filename) - 1)
    ELSE filename

\* f"{base_name}.webp"
OutName(filename) == SplitExtRoot(filename) \o <<"webp">>

\* the body of the try block on one file: open, fit, encode
ProcessFile(entry, size) ==
    IF entry.kind # "file" \/ entry.fault = "open"
    THEN [ok |-> FALSE, err |-> "open", image |-> entry]
    ELSE IF entry.fault = "decode"
    THEN [ok |-> FALSE, err |-> "decode", image |-> entry]
    ELSE IF entry.fault = "save"
    THEN [ok |-> FALSE, err |-> "save", image |-> entry]
    ELSE [ok |-> TRUE, err |-> "none", image |-> Encode(Fit(entry, <<size, size>>))]

\* writing a file into a directory: created or overwritten
Save(entries, name, content) ==
    [n \in (DOMAIN entries) \cup {name} |-> IF n = name THEN content ELSE entries[n]]

\* a save that leaves an empty file behind when the encoder raises
EntriesAfterPartialSave(entries, filename, r) ==
    IF r.ok THEN Save(entries, OutName(filename), r.image)
    ELSE IF r.err = "save" THEN Save(entries, OutName(filename), File("open", 0, 0, <<>>))
    ELSE entries

\* the output directory after the try block ran on filename
EntriesAfter(entries, filename, r) ==
    IF r.ok THEN Save(entries, OutName(filename), r.image) ELSE entries

\* a loop without the except clause: the exception leaves the function
PcAfterFileUncaught(r) == IF r.ok THEN "loop" ELSE "raised"

\* try/except Exception around each file: the loop goes on either way
PcAfterFile(r) == "loop"

\* a check that only asks whether the path exists
SourceIsFolderIfExists(node) == node.type # "absent"

\* os.path.isdir(source_folder_path)
SourceIsFolder(node) == node.type = "dir"

\* os.makedirs(path) without exist_ok: an existing directory raises too
MakeDirsStrict(node) ==
    IF node.type = "absent" THEN [ok |-> TRUE, node |-> Directory(<<>>)]
    ELSE [ok |-> FALSE, node |-> node]

\* os.makedirs(path, exist_ok=True)
MakeDirs(node) ==
    IF node.type = "dir" THEN [ok |-> TRUE, node |-> node]
    ELSE IF node.type = "absent" THEN [ok |-> TRUE, node |-> Directory(<<>>)]
    ELSE [ok |-> FALSE, node |-> node]

\* the exit status of the command-line run: 0 when process_source_images
\* returns, 1 when its exception is left unhandled (-1: still running)
ExitStatus == IF pc = "done" THEN 0
              ELSE IF pc = "raised" THEN 1
              ELSE -1

(***************************************************************************)
(* Initial states of a run                                                 *)
(***************************************************************************)
Perms(S) == {q \in [1..Cardinality(S) -> S] : \A i, j \in 1..Cardinality(S) : q[i] = q[j] => i = j}

Range(q) == {q[i] : i \in 1..Len(q)}

\* file names: a.png, a.jpg, a.webp, .png
FileNames == {<<"a", "png">>, <<"a", "jpg">>, <<"a", "webp">>, <<"", "png">>}

\* a subdirectory's name (no directory occupies the name of an output file)
DirNames == {<<"sub">>}

SourceFiles == {File("none", 4, 2, <<"px">>), File("none", 2, 4, <<"px">>),
                File("open", 0, 0, <<"text">>), File("decode", 4, 2, <<"cut">>),
                File("save", 4, 2, <<"px">>)}

SquareSizes == {1, DefaultSquareSize}

SourceFolders ==
    UNION {[D -> SourceFiles \cup {SubDirectory}] :
              D \in {E \in SUBSET (FileNames \cup DirNames) : Cardinality(E) <= MaxFiles}}

\* subdirectories carry directory names, files carry file names
WellNamed(entries) == \A n \in DOMAIN entries : (entries[n].kind = "dir") = (n \in DirNames)

\* what the output folder may hold before the first run
OldOutputs == {<<>>,
               [n \in {<<"a", "webp">>} |-> File("none", 9, 9, <<"old">>)],
               [n \in {<<"notes">>} |-> File("open", 0, 0, <<"text">>)],
               [n \in {<<"a", "webp">>, <<"notes">>} |->
                   IF n = <<"notes">> THEN File("open", 0, 0, <<"text">>)
                   ELSE File("none", 9, 9, <<"old">>)]}

Init ==
    /\ cwd = <<Sep>> /\ source_path = <<>> /\ result = <<>> /\ ppc = "idle"
    /\ source_folder_path = "S"
    /\ output_folder_path \in Paths
    /\ square_size \in SquareSizes
    /\ \E s \in {Absent, RegularFile} \cup {Directory(e) : e \in {x \in SourceFolders : WellNamed(x)}},
          o \in {Absent, RegularFile} \cup {Directory(e) : e \in OldOutputs} :
          /\ output_folder_path = "S" => o = Absent
          /\ fs = [p \in Paths |-> IF p = "S" THEN s ELSE o]
    /\ listing \in Perms(DOMAIN fs["S"].entries)
    /\ pc = "start"
    /\ todo = <<>> /\ stdout = <<>> /\ written = <<>>
    /\ run = 1
    /\ fs0 = fs

(***************************************************************************)
(* The command-line run, statement by statement                            *)
(***************************************************************************)
\* if not os.path.isdir(source_folder_path): raise ValueError
CheckSource ==
    /\ pc = "start"
    /\ pc' = IF SourceIsFolder(fs[source_folder_path]) THEN "makedirs" ELSE "raised"
    /\ UNCHANGED <<fs, source_folder_path, output_folder_path, square_size,
                   listing, todo, stdout, written, run, fs0>>
    /\ UNCHANGED pathVars

\* os.makedirs(output_folder_path, exist_ok=True)
EnsureOutput ==
    /\ pc = "makedirs"
    /\ LET m == MakeDirs(fs[output_folder_path]) IN
          /\ fs' = [fs EXCEPT ![output_folder_path] = m.node]
          /\ pc' = IF m.ok THEN "listdir" ELSE "raised"
    /\ UNCHANGED <<source_folder_path, output_folder_path, square_size,
                   listing, todo, stdout, written, run, fs0>>
    /\ UNCHANGED pathVars

\* os.listdir(source_folder_path): the direct entries, in the directory's
\* order, which stays the same while the directory holds the same names
ListDir ==
    /\ pc = "listdir"
    /\ LET names == DOMAIN fs[source_folder_path].entries IN
          IF Range(listing) = names
          THEN listing' = listing
          ELSE listing' \in Perms(names)
    /\ todo' = listing'
    /\ pc' = "loop"
    /\ UNCHANGED <<fs, source_folder_path, output_folder_path, square_size,
                   stdout, written, run, fs0>>
    /\ UNCHANGED pathVars

\* one iteration of the for loop
ProcessEntry ==
    /\ pc = "loop" /\ todo # <<>>
    /\ LET filename == Head(todo)
           entries == fs[source_folder_path].entries
       IN IF ~IsFile(entries, filename)
          THEN /\ pc' = "loop"
               /\ UNCHANGED <<fs, stdout, written>>
          ELSE LET r == ProcessFile(entries[filename], square_size)
                   after == EntriesAfter(fs[output_folder_path].entries, filename, r)
               IN /\ fs' = [fs EXCEPT ![output_folder_path].entries = after]
                  /\ written' = IF r.ok
                                THEN Append(written, [src |-> filename, out |-> OutName(filename)])
                                ELSE written
                  /\ stdout' = IF r.ok /\ PcAfterFile(r) = "loop"
                               THEN Append(stdout, <<"Processed", filename, OutName(filename)>>)
                               ELSE IF PcAfterFile(r) = "loop"
                               THEN Append(stdout, <<"Skipping", filename, r.err>>)
                               ELSE stdout
                  /\ pc' = PcAfterFile(r)
    /\ todo' = Tail(todo)
    /\ UNCHANGED <<source_folder_path, output_folder_path, square_size, listing, run, fs0>>
    /\ UNCHANGED pathVars

\* print(f"Done. Output in: {output_folder_path}") and return
Finish ==
    /\ pc = "loop" /\ todo = <<>>
    /\ stdout' = Append(stdout, <<"Done", output_folder_path>>)
    /\ pc' = "done"
    /\ UNCHANGED <<fs, source_folder_path, output_folder_path, square_size,
                   listing, todo, written, run, fs0>>
    /\ UNCHANGED pathVars

\* the same command line is run again on the files as they now are
RunAgain ==
    /\ pc = "done" /\ run < MaxRuns
    /\ run' = run + 1
    /\ fs0' = fs
    /\ pc' = "start"
    /\ todo' = <<>> /\ stdout' = <<>> /\ written' = <<>>
    /\ UNCHANGED <<fs, source_folder_path, output_folder_path, square_size, listing>>
    /\ UNCHANGED pathVars

Next == CheckSource \/ EnsureOutput \/ ListDir \/ ProcessEntry \/ Finish \/ RunAgain

Spec == Init /\ [][Next]_vars

(***************************************************************************)
(* Properties of a run                                                     *)
(***************************************************************************)
Src0 == fs0[source_folder_path].entries

Src == fs[source_folder_path].entries

Out0 == fs0[output_folder_path].entries

Out == fs[output_folder_path].entries

ValidImage(e) == e.kind = "file" /\ e.fault = "none"

BadFile(e) == e.kind = "file" /\ e.fault # "none"

\* the file name with its last extension stripped (a name that only starts
\* with a dot has no extension)
StemOf(f) == IF \A i \in 1..(Len(f) - 1) : f[i] = "" THEN f
             ELSE [i \in 1..(Len(f) - 1) |-> f[i]]

ThumbName(f) == StemOf(f) \o <<"webp">>

\* the lines of one kind printed about file f
Lines(kind, f) == {i \in 1..Len(stdout) : stdout[i][1] = kind /\ stdout[i][2] = f}

\* the source files the run reported as processed
ProcessedFiles == {stdout[i][2] : i \in {j \in 1..Len(stdout) : stdout[j][1] = "Processed"}}

\* C1: after a completed run, every valid image file of the source folder
\* has <stem>.webp in the output folder, an image of exactly
\* square_size x square_size pixels.
C1_ThumbnailForEveryValidImage ==
    pc = "done" =>
        \A f \in DOMAIN Src0 :
            ValidImage(Src0[f]) =>
                /\ ThumbName(f) \in DOMAIN Out
                /\ ValidImage(Out[ThumbName(f)])
                /\ Out[ThumbName(f)].w = square_size
                /\ Out[ThumbName(f)].h = square_size

C1_Reached ==
    /\ pc = "done" /\ fs0["O"].type = "absent" /\ output_folder_path = "O"
    /\ square_size = DefaultSquareSize
    /\ <<"a", "png">> \in DOMAIN Src0 /\ ValidImage(Src0[<<"a", "png">>])
    /\ Src0[<<"a", "png">>].w = 4 /\ Src0[<<"a", "png">>].h = 2
    /\ Out[<<"a", "webp">>].w = DefaultSquareSize

C3_NoWorkWithoutSourceFolder ==
    fs0[source_folder_path].type # "dir" =>
        /\ pc \in {"start", "raised"}
        /\ fs = fs0
        /\ todo = <<>> /\ stdout = <<>> /\ written = <<>>

C3_Reached ==
    /\ pc = "raised" /\ ExitStatus = 1
    /\ fs0[source_folder_path].type = "file"
    /\ output_folder_path = "O" /\ fs["O"].type = "absent"

\* C6 (as claimed): a second run with the same arguments leaves the output
\* folder exactly as the first run left it.
C6_SecondRunChangesNothing ==
    (run >= 2 /\ pc = "done") => fs[output_folder_path] = fs0[output_folder_path]

\* C6 (amended): when the output folder is not the source folder, a second
\* run with the same arguments completes and leaves the output folder with
\* the same files and contents as the first run left it.
C6_SecondRunChangesNothingElsewhere ==
    (run >= 2 /\ output_folder_path # source_folder_path) =>
        /\ pc # "raised"
        /\ pc = "done" => fs[output_folder_path] = fs0[output_folder_path]

C6_Reached ==
    /\ run = 2 /\ pc = "done" /\ output_folder_path # source_folder_path
    /\ Len(written) = 2 /\ written[1].out = written[2].out
    /\ Src[written[1].src] # Src[written[2].src]

\* C7 (as claimed): the run exits non-zero exactly when the source path is
\* not an existing directory, and exits 0 in every other case.
C7_NonZeroOnlyForBadSource ==
    /\ ExitStatus = 1 => fs0[source_folder_path].type # "dir"
    /\ ExitStatus = 0 => fs0[source_folder_path].type = "dir"

\* C7 (amended): the run exits non-zero exactly when the source path is not
\* an existing directory or the output path exists and is not a directory;
\* in every other case it goes on to the completion line and exits 0,
\* however many files were skipped.
C7_ExitStatus ==
    LET badSource == fs0[source_folder_path].type # "dir"
        badOutput == fs0[output_folder_path].type = "file"
    IN /\ ExitStatus = 1 => (badSource \/ badOutput)
       /\ (badSource \/ badOutput) => pc \in {"start", "makedirs", "raised"}
       /\ ExitStatus = 0 => stdout[Len(stdout)] = <<"Done", output_folder_path>>
       /\ (pc = "loop" /\ todo # <<>> /\ Head(todo) \in DOMAIN Src /\ BadFile(Src[Head(todo)]))
              => ENABLED ProcessEntry

C7_Reached ==
    /\ ExitStatus = 0 /\ Len(stdout) = 3
    /\ stdout[1][1] = "Skipping" /\ stdout[2][1] = "Skipping"

\* C8: the files written by a run correspond one-to-one to the files it
\* processed successfully: each such file is written once, to <stem>.webp,
\* and no two of them to the same output file.
C8_OneOutputPerProcessedFile ==
    pc = "done" =>
        /\ \A f \in ProcessedFiles :
               Cardinality({i \in 1..Len(written) : written[i].src = f}) = 1
        /\ \A i \in 1..Len(written) :
               written[i].src \in ProcessedFiles /\ written[i].out = ThumbName(written[i].src)
        /\ \A i, j \in 1..Len(written) :
               written[i].out = written[j].out => i = j

\* C9: entries of the source folder that are not regular files are passed
\* over in silence: every printed line and every write is about a regular
\* file that is a direct entry, a completed run printed one line per regular
\* file, and the other entries are untouched.
C9_OnlyRegularFilesHandled ==
    /\ \A i \in 1..Len(stdout) :
           stdout[i][1] \in {"Processed", "Skipping"} => IsFile(Src0, stdout[i][2])
    /\ \A i \in 1..Len(written) : IsFile(Src0, written[i].src)
    /\ pc = "done" =>
           Len(stdout) = Cardinality({f \in DOMAIN Src0 : Src0[f].kind = "file"}) + 1
    /\ \A d \in DOMAIN Src0 :
           Src0[d].kind = "dir" => (d \in DOMAIN Src /\ Src[d] = Src0[d])

C9_Reached ==
    /\ pc = "done" /\ Len(stdout) = 2 /\ stdout[1][1] = "Processed"
    /\ \E d \in DOMAIN Src0 : Src0[d].kind = "dir"

\* C10: a run changes the output folder only at the names <stem>.webp of the
\* files it processed successfully, where the new thumbnail now is; every
\* other file there is as it was, and so is the source folder when it is
\* another directory.
C10_OnlyThumbnailsChange ==
    LET produced == {ThumbName(f) : f \in ProcessedFiles} IN
    /\ \A n \in (DOMAIN Out0) \cup (DOMAIN Out) :
           n \notin produced => (n \in DOMAIN Out0 /\ n \in DOMAIN Out /\ Out[n] = Out0[n])
    /\ \A n \in produced :
           /\ n \in DOMAIN Out
           /\ ValidImage(Out[n])
           /\ Out[n].w = square_size /\ Out[n].h = square_size
           /\ Out[n].data[1] = "WEBP" /\ Out[n].data[2] = Quality
    /\ output_folder_path # source_folder_path => fs[source_folder_path] = fs0[source_folder_path]

C10_Reached ==
    /\ pc = "done" /\ output_folder_path # source_folder_path
    /\ DOMAIN Out0 = {<<"a", "webp">>, <<"notes">>}
    /\ ProcessedFiles = {<<"a", "jpg">>}
    /\ Out[<<"a", "webp">>] # Out0[<<"a", "webp">>]
    /\ \E f \in DOMAIN Src0 : Src0[f].fault = "save"

(***************************************************************************)
(* The path derivation as a state machine: one call on one argument        *)
(***************************************************************************)
RECURSIVE SeqsUpTo(_, _)
SeqsUpTo(S, n) == IF n = 0 THEN {<<>>}
                  ELSE SeqsUpTo(S, n - 1) \cup
                       {Append(q, x) : q \in {r \in SeqsUpTo(S, n - 1) : Len(r) = n - 1}, x \in S}

\* the segments a caller may type between separators (<<>>: an empty segment)
RawSegs == {<<>>, <<"a">>, <<"b">>, <<"source_images">>, <<"..">>, <<".">>}

RawPaths == {SepJoin(q) : q \in SeqsUpTo(RawSegs, MaxSegs) \ {<<>>}}

Cwds == {<<Sep>>, <<Sep, "b">>}

InitPath ==
    /\ cwd \in Cwds
    /\ source_path \in RawPaths
    /\ result = <<>>
    /\ ppc = "call"
    /\ fs = <<>> /\ source_folder_path = "S" /\ output_folder_path = "O"
    /\ square_size = 1 /\ pc = "idle" /\ listing = <<>> /\ todo = <<>>
    /\ stdout = <<>> /\ written = <<>> /\ run = 1 /\ fs0 = <<>>

\* output_folder = ... or _build_default_output_path(args.input_folder)
CallBuild ==
    /\ ppc = "call"
    /\ result' = BuildDefaultOutputPath(source_path)
    /\ ppc' = "returned"
    /\ UNCHANGED <<cwd, source_path>>
    /\ UNCHANGED batchVars

NextPath == CallBuild

SpecPath == InitPath /\ [][NextPath]_vars

(***************************************************************************)
(* What the path claims expect, computed from the typed path segment by    *)
(* segment (independently of split/join/normpath above)                    *)
(***************************************************************************)
\* the segments of a token string
RECURSIVE SegsOf(_, _)
SegsOf(s, cur) == IF s = <<>> THEN <<cur>>
                  ELSE IF Head(s) = Sep THEN <<cur>> \o SegsOf(Tail(s), <<>>)
                  ELSE SegsOf(Tail(s), Append(cur, Head(s)))

\* walk the typed segments from a starting directory
RECURSIVE Walk(_, _)
Walk(stack, segs) ==
    IF segs = <<>> THEN stack
    ELSE LET g == Head(segs) IN
         IF g = <<>> \/ g = <<".">> THEN Walk(stack, Tail(segs))
         ELSE IF g = <<"..">>
              THEN Walk(IF stack = <<>> THEN stack ELSE SubSeq(stack, 1, Len(stack) - 1), Tail(segs))
         ELSE Walk(Append(stack, g), Tail(segs))

\* the directory names of the absolute source path, root first
AbsSegs == IF source_path # <<>> /\ Head(source_path) = Sep
           THEN Walk(<<>>, SegsOf(source_path, <<>>))
           ELSE Walk(Walk(<<>>, SegsOf(cwd, <<>>)), SegsOf(source_path, <<>>))

\* the root the absolute source path starts at: "/" (or POSIX's distinct "//")
AbsRoot == IF Len(source_path) >= 2 /\ source_path[1] = Sep /\ source_path[2] = Sep
              /\ ~(Len(source_path) >= 3 /\ source_path[3] = Sep)
           THEN <<Sep, Sep>> ELSE <<Sep>>

\* root and names written as a path
RECURSIVE Under(_, _)
Under(root, segs) == IF segs = <<>> THEN root
                     ELSE Under((IF root[Len(root)] = Sep THEN root ELSE Append(root, Sep))
                                \o Head(segs), Tail(segs))

HasSentinel == \E i \in 1..Len(AbsSegs) : AbsSegs[i] = Sentinel

SentinelAt == CHOOSE i \in 1..Len(AbsSegs) :
                  AbsSegs[i] = Sentinel /\ \A j \in 1..(i - 1) : AbsSegs[j] # Sentinel

\* <project_root>/processed_source_images/<remainder>_processed
ExpectedSentinelPath ==
    LET k == SentinelAt
        project_root == Under(AbsRoot, SubSeq(AbsSegs, 1, k - 1))
        rest == SubSeq(AbsSegs, k + 1, Len(AbsSegs))
        remainder == IF rest = <<>> THEN <<>> ELSE Under(Head(rest), Tail(rest))
    IN Under(project_root, <<<<"processed_source_images">>>>) \o <<Sep>>
       \o remainder \o <<"_processed">>

\* <parent of source>/<source basename>_processed
ExpectedSiblingPath ==
    LET n == Len(AbsSegs) IN
    IF n = 0 THEN AbsRoot \o <<"_processed">>
    ELSE Under(AbsRoot, SubSeq(AbsSegs, 1, n - 1) \o <<AbsSegs[n] \o <<"_processed">>>>)

\* C4: whenever a segment of the absolute source path is "source_images",
\* _build_default_output_path returns
\* <project_root>/processed_source_images/<remainder>_processed, for every
\* position of the sentinel (under the root, in the middle, last).
C4_SentinelPath ==
    (ppc = "returned" /\ HasSentinel) => result = ExpectedSentinelPath

\* the same statement for a sentinel that has at least one directory above it
C4_SentinelBelowADirectory ==
    (ppc = "returned" /\ HasSentinel /\ SentinelAt > 1) => result = ExpectedSentinelPath

C4_Reached == ppc = "returned" /\ HasSentinel /\ SentinelAt > 1 /\ Len(AbsSegs) > SentinelAt

\* C5: when no segment of the absolute source path is "source_images",
\* _build_default_output_path returns <parent>/<basename>_processed: a path
\* with the same parent directory as the source, different from the source.
C5_SiblingPath ==
    (ppc = "returned" /\ ~HasSentinel) =>
        /\ result = ExpectedSiblingPath
        /\ Dirname(result) = Dirname(Under(AbsRoot, AbsSegs))
        /\ result # Under(AbsRoot, AbsSegs)

C5_Reached == ppc = "returned" /\ ~HasSentinel /\ Len(AbsSegs) = 3
              /\ result = <<Sep, "a", Sep, "b", Sep, "a", "_processed">>

====
